---- MODULE Spec2Model ----
(***************************************************************************)
(* Model of the favorites store operations addFavoriteShow,                *)
(* removeFavoriteShow and isShowFavorited (src/unnamed/part_000).          *)
(*                                                                         *)
(* The JavaScript runtime is a single-threaded event loop: an async        *)
(* function runs without interruption between two awaits.  Each action     *)
(* below is one such uninterrupted segment of one call:                    *)
(*   - the call itself, up to `await supabase.auth.getUser()`;             *)
(*   - the segment between getUser resolving and the next await (or the    *)
(*     return);                                                            *)
(*   - the segment after the remote insert/delete resolves.                *)
(* Several calls may be suspended at an await at the same time.            *)
(*                                                                         *)
(* The second part models fetchWithRetry (src/unnamed/part_001) the same   *)
(* way, with the timers of setTimeout and a clock that moves from one      *)
(* timer deadline to the next.  The third part models fetchHistory of the  *)
(* History page (same file).  Each part has its own specification and      *)
(* leaves the variables of the other parts untouched.                      *)
(***************************************************************************)
EXTENDS Integers, Sequences, FiniteSets, TLC

\* ---- bounds of the model ------------------------------------------------
MaxId == 2        \* show ids are 1..MaxId
MaxCalls == 2     \* calls of addFavoriteShow/removeFavoriteShow per behaviour
MaxInit == 1      \* length of the favorites list the store starts with

Ids == 1..MaxId
\* media types an entry of the shared favorites list can carry; the two
\* operations of part_000 always use 'tv'
Types == {"tv", "movie"}

VARIABLES
    favorites,        \* useStore state.favorites: ordered list of entries
    favoritedMedia,   \* useStore state.favoritedMedia: Set of keys
    remote,           \* rows of the user's remote 'favorites' table, as keys
    toasts,           \* notifications emitted so far, oldest first
    calls,            \* the calls made so far, in call order, with their locals
    favoritedMedia0   \* the membership index the behaviour started with

vars == <<favorites, favoritedMedia, remote, toasts, calls, favoritedMedia0>>

VARIABLES
    maxRetries,       \* fetchWithRetry: argument maxRetries
    delay,            \* fetchWithRetry: argument delay
    loopI,            \* fetchWithRetry: the loop variable i
    fetchPc,          \* where the call is: idle, racing, waiting, returned, thrown
    fetchResult,      \* what the call returned or threw
    requests,         \* the fetch() requests made, in order, one per attempt
    timers,           \* pending setTimeout timers
    now               \* the clock, in ms since the call

fetchVars == <<maxRetries, delay, loopI, fetchPc, fetchResult, requests, timers, now>>

VARIABLES
    user,             \* History: the user of useAuth()
    histPc,           \* where the call of fetchHistory is
    historyData,      \* fetchHistory: the raw records received
    detailedHistory,  \* fetchHistory: one promise per raw record
    awaited,          \* fetchHistory: per raw record, the fetches and parsings
                      \* its callback has awaited, in order, with their outcomes
    history,          \* History: state `history`
    loading,          \* History: state `loading`
    error             \* History: state `error`

histVars == <<user, histPc, historyData, detailedHistory, awaited, history, loading, error>>

allVars == <<vars, fetchVars, histVars>>

\* ---- pure helpers ---------------------------------------------------------

\* `${showId}-tv`
FavoriteKey(showId) == <<showId, "tv">>

\* the key under which the store indexes an entry of the list
KeyOf(entry) == <<entry.id, entry.type>>

\* { ...show, type: 'tv' }
ShowEntry(showId) == [id |-> showId, type |-> "tv"]

\* useStore.getState().favoritedMedia.has(`${showId}-tv`)
isShowFavorited(showId) == FavoriteKey(showId) \in favoritedMedia

Range(s) == {s[i] : i \in DOMAIN s}

Toast(kind, text, showId) == [kind |-> kind, text |-> text, show |-> showId]

\* ---- the state updates of addFavoriteShow / removeFavoriteShow -------------

\* if (state.favoritedMedia.has(favoriteKey)) return;
AlreadyFavorited_NeverFound(key, media) == FALSE
AlreadyFavorited(key, media) == key \in media

\* favorites: [{ ...show, type: 'tv' }, ...currentState.favorites]
AddOptimisticFavorites_AtTail(showId, favs) == Append(favs, ShowEntry(showId))
AddOptimisticFavorites(showId, favs) == <<ShowEntry(showId)>> \o favs

\* favoritedMedia: new Set(currentState.favoritedMedia).add(favoriteKey)
AddOptimisticMedia(key, media) == media \cup {key}

\* newFavoritedMedia.delete(favoriteKey)
AddRevertMedia_KeyKept(key, media) == media
AddRevertMedia(key, media) == media \ {key}

\* favorites: currentState.favorites.filter(f => f.id !== showId)
AddRevertFavorites_NotFiltered(showId, favs) == favs
AddRevertFavorites(showId, favs) == SelectSeq(favs, LAMBDA f : f.id # showId)

\* favorites: currentState.favorites.filter(fav => fav.id !== showId)
RemoveOptimisticFavorites_NotFiltered(showId, favs) == favs
RemoveOptimisticFavorites(showId, favs) ==
    SelectSeq(favs, LAMBDA fav : fav.id # showId)

\* favoritedMedia: new Set([...currentState.favoritedMedia].filter(id => id !== favoriteKey))
RemoveOptimisticMedia_KeyKept(key, media) == media
RemoveOptimisticMedia(key, media) == {id \in media : id # key}

\* setState({ favorites: originalFavorites, favoritedMedia: originalFavoritedMedia })
RemoveRevertFavorites_NotRestored(call, favs) == favs
RemoveRevertFavorites(call, favs) == call.originalFavorites
RemoveRevertMedia_OnlyOwnKey(call, media) ==
    media \cup (call.originalFavoritedMedia \cap {FavoriteKey(call.id)})
RemoveRevertMedia(call, media) == call.originalFavoritedMedia

\* the remote table: a successful insert adds the row, a successful delete
\* removes the rows matching { user_id, media_id, media_type: 'tv' }; a call
\* that answers with an error leaves the table as it was
RemoteInsert(key, rows) == rows \cup {key}
RemoteDelete(key, rows) == rows \ {key}

\* ---- initial state ----------------------------------------------------------

Entries == [id : Ids, type : Types]

\* lists of at most MaxInit entries, no key twice
InitLists ==
    UNION { { s \in [1..n -> Entries] :
                \A i, j \in 1..n : i # j => KeyOf(s[i]) # KeyOf(s[j]) }
            : n \in 0..MaxInit }

FavoritesInit ==
    /\ favorites \in InitLists
    /\ favoritedMedia = {KeyOf(e) : e \in Range(favorites)}
    /\ remote = favoritedMedia
    /\ toasts = <<>>
    /\ calls = <<>>
    /\ favoritedMedia0 = favoritedMedia

\* ---- calls ------------------------------------------------------------------

AllSettled == \A c \in DOMAIN calls : calls[c].pc = "done"

NewCall(op, showId) ==
    [op |-> op, id |-> showId, pc |-> "getUser", outcome |-> "pending",
     afterSettled |-> AllSettled,
     originalFavorites |-> <<>>, originalFavoritedMedia |-> {}]

Return(c, outcome) ==
    calls' = [calls EXCEPT ![c] = [@ EXCEPT !.pc = "done", !.outcome = outcome,
                                             !.originalFavorites = <<>>,
                                             !.originalFavoritedMedia = {}]]

At(c, op, pc) == calls[c].op = op /\ calls[c].pc = pc

\* addFavoriteShow(show) is called and suspends at `await supabase.auth.getUser()`
CallAdd(showId) ==
    /\ Len(calls) < MaxCalls
    /\ calls' = Append(calls, NewCall("add", showId))
    /\ UNCHANGED <<favorites, favoritedMedia, remote, toasts, favoritedMedia0, fetchVars, histVars>>

\* removeFavoriteShow(show) is called and suspends at `await supabase.auth.getUser()`
CallRemove(showId) ==
    /\ Len(calls) < MaxCalls
    /\ calls' = Append(calls, NewCall("remove", showId))
    /\ UNCHANGED <<favorites, favoritedMedia, remote, toasts, favoritedMedia0, fetchVars, histVars>>

\* ---- addFavoriteShow --------------------------------------------------------

\* getUser answers with no user: toast.error(...); return
AddNoUser_Silent(c) ==
    /\ At(c, "add", "getUser")
    /\ Return(c, "unauth")
    /\ UNCHANGED <<favorites, favoritedMedia, remote, toasts, favoritedMedia0, fetchVars, histVars>>
AddNoUser(c) ==
    /\ At(c, "add", "getUser")
    /\ toasts' = Append(toasts, Toast("error", "login", 0))
    /\ Return(c, "unauth")
    /\ UNCHANGED <<favorites, favoritedMedia, remote, favoritedMedia0, fetchVars, histVars>>

\* getUser answers with a user, the key is in the index: return
AddAlreadyFavorited(c) ==
    /\ At(c, "add", "getUser")
    /\ AlreadyFavorited(FavoriteKey(calls[c].id), favoritedMedia)
    /\ Return(c, "noop")
    /\ UNCHANGED <<favorites, favoritedMedia, remote, toasts, favoritedMedia0, fetchVars, histVars>>

\* getUser answers with a user, the key is not in the index: optimistic
\* update, success toast, the insert is sent and awaited
AddOptimistic(c) ==
    /\ At(c, "add", "getUser")
    /\ ~AlreadyFavorited(FavoriteKey(calls[c].id), favoritedMedia)
    /\ favorites' = AddOptimisticFavorites(calls[c].id, favorites)
    /\ favoritedMedia' = AddOptimisticMedia(FavoriteKey(calls[c].id), favoritedMedia)
    /\ toasts' = Append(toasts, Toast("success", "added", calls[c].id))
    /\ calls' = [calls EXCEPT ![c].pc = "insert"]
    /\ UNCHANGED <<remote, favoritedMedia0, fetchVars, histVars>>

\* the insert resolves without error: the function returns
AddInsertOk(c) ==
    /\ At(c, "add", "insert")
    /\ remote' = RemoteInsert(FavoriteKey(calls[c].id), remote)
    /\ Return(c, "ok")
    /\ UNCHANGED <<favorites, favoritedMedia, toasts, favoritedMedia0, fetchVars, histVars>>

\* the insert resolves with an error: revert
AddInsertError(c) ==
    /\ At(c, "add", "insert")
    /\ favoritedMedia' = AddRevertMedia(FavoriteKey(calls[c].id), favoritedMedia)
    /\ favorites' = AddRevertFavorites(calls[c].id, favorites)
    /\ Return(c, "error")
    /\ UNCHANGED <<remote, toasts, favoritedMedia0, fetchVars, histVars>>

\* ---- removeFavoriteShow -----------------------------------------------------

\* getUser answers with no user: return
RemoveNoUser_Toast(c) ==
    /\ At(c, "remove", "getUser")
    /\ toasts' = Append(toasts, Toast("error", "login", 0))
    /\ Return(c, "unauth")
    /\ UNCHANGED <<favorites, favoritedMedia, remote, favoritedMedia0, fetchVars, histVars>>
RemoveNoUser(c) ==
    /\ At(c, "remove", "getUser")
    /\ Return(c, "unauth")
    /\ UNCHANGED <<favorites, favoritedMedia, remote, toasts, favoritedMedia0, fetchVars, histVars>>

\* getUser answers with a user: snapshot, optimistic update, toast, the delete
\* is sent and awaited
RemoveOptimistic(c) ==
    /\ At(c, "remove", "getUser")
    /\ favorites' = RemoveOptimisticFavorites(calls[c].id, favorites)
    /\ favoritedMedia' = RemoveOptimisticMedia(FavoriteKey(calls[c].id), favoritedMedia)
    /\ toasts' = Append(toasts, Toast("error", "removed", calls[c].id))
    /\ calls' = [calls EXCEPT ![c] = [@ EXCEPT !.pc = "delete",
                                               !.originalFavorites = favorites,
                                               !.originalFavoritedMedia = favoritedMedia]]
    /\ UNCHANGED <<remote, favoritedMedia0, fetchVars, histVars>>

\* the delete resolves without error: the function returns
RemoveDeleteOk(c) ==
    /\ At(c, "remove", "delete")
    /\ remote' = RemoteDelete(FavoriteKey(calls[c].id), remote)
    /\ Return(c, "ok")
    /\ UNCHANGED <<favorites, favoritedMedia, toasts, favoritedMedia0, fetchVars, histVars>>

\* the delete resolves with an error: restore the snapshot, failure toast
RemoveDeleteError(c) ==
    /\ At(c, "remove", "delete")
    /\ favorites' = RemoveRevertFavorites(calls[c], favorites)
    /\ favoritedMedia' = RemoveRevertMedia(calls[c], favoritedMedia)
    /\ toasts' = Append(toasts, Toast("error", "removeFailed", calls[c].id))
    /\ Return(c, "error")
    /\ UNCHANGED <<remote, favoritedMedia0, fetchVars, histVars>>

Next ==
    \/ \E showId \in Ids : CallAdd(showId)
    \/ \E showId \in Ids : CallRemove(showId)
    \/ \E c \in DOMAIN calls : AddNoUser(c)
    \/ \E c \in DOMAIN calls : AddAlreadyFavorited(c)
    \/ \E c \in DOMAIN calls : AddOptimistic(c)
    \/ \E c \in DOMAIN calls : AddInsertOk(c)
    \/ \E c \in DOMAIN calls : AddInsertError(c)
    \/ \E c \in DOMAIN calls : RemoveNoUser(c)
    \/ \E c \in DOMAIN calls : RemoveOptimistic(c)
    \/ \E c \in DOMAIN calls : RemoveDeleteOk(c)
    \/ \E c \in DOMAIN calls : RemoveDeleteError(c)

\* ---- fetchWithRetry (src/unnamed/part_001) -----------------------------------

\* bounds of the arguments tried
MaxRetriesArg == 3    \* maxRetries ranges over -1..MaxRetriesArg
MaxDelayArg == 2      \* delay ranges over 1..MaxDelayArg and the default

\* setTimeout(() => reject(new Error('Request timeout')), 10000)
TimeoutMs == 10000
\* maxRetries = 3, delay = 1000
DefaultMaxRetries == 3
DefaultDelay == 1000

RetriesArgs == (-1..MaxRetriesArg) \cup {DefaultMaxRetries}
DelayArgs == (1..MaxDelayArg) \cup {DefaultDelay}

\* for (let i = 0; i < maxRetries; i++)
LoopContinues_OneMore(idx, mr) == idx <= mr
LoopContinues(idx, mr) == idx < mr

\* if (i === maxRetries - 1) throw error
IsLastAttempt_OffByOne(idx, mr) == idx = mr
IsLastAttempt(idx, mr) == idx = mr - 1

\* setTimeout(resolve, delay * (i + 1))
BackoffDelay_Constant(d, idx) == d
BackoffDelay(d, idx) == d * (idx + 1)

\* if (!response.ok) throw ...; return response
ResponseAccepted_Any(ok) == TRUE
ResponseAccepted(ok) == ok

\* Promise.race([fetchPromise, timeoutPromise]) settles once, with whichever
\* of the two settles first
RaceSettled_Never(req) == FALSE
RaceSettled(req) == req.race # "pending"

NoResult == [kind |-> "none", attempt |-> 0, error |-> "none", at |-> 0]

\* the value of `response` / the thrown `error`
Undefined == [kind |-> "undefined", attempt |-> 0, error |-> "none", at |-> now]
Returned_Nothing(k) == Undefined
Returned(k) == [kind |-> "response", attempt |-> k, error |-> "none", at |-> now]
Thrown(k, why) == [kind |-> "error", attempt |-> k, error |-> why, at |-> now]

NewRequest == [startedAt |-> now, race |-> "pending", net |-> "pending", endedAt |-> 0]

TimeoutTimer(k) == [kind |-> "timeout", attempt |-> k, at |-> now + TimeoutMs]
BackoffTimer(k, d) == [kind |-> "backoff", attempt |-> k, at |-> now + d]

FetchIdle ==
    /\ maxRetries = DefaultMaxRetries
    /\ delay = DefaultDelay
    /\ loopI = 0
    /\ fetchPc = "idle"
    /\ fetchResult = NoResult
    /\ requests = <<>>
    /\ timers = {}
    /\ now = 0

\* the body of the try block up to `await Promise.race(...)`: the timeout
\* timer is set and the request is sent
StartAttempt(reqs, tms) ==
    /\ requests' = Append(reqs, NewRequest)
    /\ timers' = tms \cup {TimeoutTimer(Len(reqs) + 1)}
    /\ fetchPc' = "racing"

\* fetchWithRetry(url, mr, d) is called: the loop is entered if 0 < mr,
\* otherwise the function ends without a return statement
CallFetchWithRetry(mr, d) ==
    /\ fetchPc = "idle"
    /\ maxRetries' = mr
    /\ delay' = d
    /\ loopI' = 0
    /\ IF LoopContinues(0, mr)
       THEN StartAttempt(requests, timers) /\ fetchResult' = fetchResult
       ELSE /\ fetchPc' = "returned"
            /\ fetchResult' = Undefined
            /\ UNCHANGED <<requests, timers>>
    /\ UNCHANGED <<now, vars, histVars>>

RaceOf(k, how, netHow) ==
    [requests EXCEPT ![k] = [@ EXCEPT !.race = how, !.net = netHow, !.endedAt = now]]

\* the catch block: rethrow on the last attempt, otherwise set the backoff
\* timer and wait
Catch(k, why) ==
    IF IsLastAttempt(loopI, maxRetries)
    THEN /\ fetchPc' = "thrown"
         /\ fetchResult' = Thrown(k, why)
         /\ timers' = timers
    ELSE /\ fetchPc' = "waiting"
         /\ fetchResult' = fetchResult
         /\ timers' = timers \cup {BackoffTimer(k, BackoffDelay(delay, loopI))}

Racing(k) ==
    /\ k \in DOMAIN requests
    /\ requests[k].net = "pending"
    /\ ~RaceSettled(requests[k])

\* the request of the attempt answers first, with a response; `ok` is
\* response.ok
Response(k, ok) ==
    /\ Racing(k)
    /\ IF ResponseAccepted(ok)
       THEN /\ requests' = RaceOf(k, IF ok THEN "ok" ELSE "notOk", "settled")
            /\ fetchPc' = "returned"
            /\ fetchResult' = Returned(k)
            /\ timers' = timers
       ELSE /\ requests' = RaceOf(k, "notOk", "settled")
            /\ Catch(k, "http")
    /\ UNCHANGED <<maxRetries, delay, loopI, now, vars, histVars>>

\* the request of the attempt fails first (fetch rejects)
RequestError(k) ==
    /\ Racing(k)
    /\ requests' = RaceOf(k, "requestError", "settled")
    /\ Catch(k, "request")
    /\ UNCHANGED <<maxRetries, delay, loopI, now, vars, histVars>>

\* the timeout timer of an attempt fires while its request is unsettled
TimeoutFires(t) ==
    /\ t \in timers /\ t.kind = "timeout" /\ t.at = now
    /\ Racing(t.attempt)
    /\ requests' = RaceOf(t.attempt, "timeout", "pending")
    /\ LET left == timers \ {t} IN
       IF IsLastAttempt(loopI, maxRetries)
       THEN /\ fetchPc' = "thrown"
            /\ fetchResult' = Thrown(t.attempt, "timeout")
            /\ timers' = left
       ELSE /\ fetchPc' = "waiting"
            /\ fetchResult' = fetchResult
            /\ timers' = left \cup {BackoffTimer(t.attempt, BackoffDelay(delay, loopI))}
    /\ UNCHANGED <<maxRetries, delay, loopI, now, vars, histVars>>

\* the timeout timer of an attempt fires after its request has settled: the
\* rejection loses the race and is dropped
StaleTimeoutFires(t) ==
    /\ t \in timers /\ t.kind = "timeout" /\ t.at = now
    /\ ~Racing(t.attempt)
    /\ timers' = timers \ {t}
    /\ UNCHANGED <<maxRetries, delay, loopI, fetchPc, fetchResult, requests, now, vars, histVars>>

\* the request of an attempt settles after its timeout has fired: the
\* outcome loses the race and is dropped
LateSettle(k, how) ==
    /\ k \in DOMAIN requests
    /\ requests[k].net = "pending"
    /\ RaceSettled(requests[k])
    /\ requests' = [requests EXCEPT ![k].net = how]
    /\ UNCHANGED <<maxRetries, delay, loopI, fetchPc, fetchResult, timers, now, vars, histVars>>

\* the backoff wait ends: i++, loop test, next attempt
BackoffElapsed(t) ==
    /\ t \in timers /\ t.kind = "backoff" /\ t.at = now
    /\ fetchPc = "waiting"
    /\ loopI' = loopI + 1
    /\ IF LoopContinues(loopI + 1, maxRetries)
       THEN StartAttempt(requests, timers \ {t}) /\ fetchResult' = fetchResult
       ELSE /\ fetchPc' = "returned"
            /\ fetchResult' = Undefined
            /\ requests' = requests
            /\ timers' = timers \ {t}
    /\ UNCHANGED <<maxRetries, delay, now, vars, histVars>>

\* nothing is due: the clock moves to the next timer deadline
AdvanceTime ==
    /\ timers # {}
    /\ \A t \in timers : t.at > now
    /\ now' = CHOOSE a \in {t.at : t \in timers} : \A t \in timers : a <= t.at
    /\ UNCHANGED <<maxRetries, delay, loopI, fetchPc, fetchResult, requests, timers, vars, histVars>>

FetchNext ==
    \/ \E mr \in RetriesArgs, d \in DelayArgs : CallFetchWithRetry(mr, d)
    \/ \E k \in DOMAIN requests, ok \in BOOLEAN : Response(k, ok)
    \/ \E k \in DOMAIN requests : RequestError(k)
    \/ \E t \in timers : TimeoutFires(t)
    \/ \E t \in timers : StaleTimeoutFires(t)
    \/ \E k \in DOMAIN requests, how \in {"lateOk", "lateNotOk", "lateError"} :
          LateSettle(k, how)
    \/ \E t \in timers : BackoffElapsed(t)
    \/ AdvanceTime

\* ---- fetchHistory (src/unnamed/part_001) --------------------------------------

MaxRecords == 2       \* raw history records received by one call

\* the media the history records refer to: a movie and a tv show of the TMDB
\* catalogue, each under its own id
Media == {[media_id |-> "m1", media_type |-> "movie"],
          [media_id |-> "m2", media_type |-> "tv"]}

\* the values season_number / episode_number take: 0 stands for the falsy
\* values (null, undefined, 0), 1 for a number
NumberOrNull == {0, 1}

Truthy(x) == x # 0

\* the raw record at position n of the history: the columns the code reads.
\* watched_at and the progress columns are fixed by the position, so that
\* every record of a list is distinguishable.
RawRecord(n, mediaId, mediaType, season, episode) ==
    [media_id |-> mediaId, media_type |-> mediaType,
     season_number |-> season, episode_number |-> episode,
     watched_at |-> n, progress_seconds |-> n + n, duration_seconds |-> n + n + n]

RawLists ==
    UNION { { [n \in 1..len |->
                 RawRecord(n, media[n].media_id, media[n].media_type,
                           seasons[n], episodes[n])] :
                media \in [1..len -> Media],
                seasons \in [1..len -> NumberOrNull],
                episodes \in [1..len -> NumberOrNull] }
            : len \in 1..MaxRecords }

\* the result object built from the details (lines 92-105)
DetailsResult(item) ==
    [id |-> item.media_id, type |-> item.media_type, media_type |-> item.media_type,
     media_id |-> item.media_id,
     season_number |-> item.season_number, episode_number |-> item.episode_number,
     watched_at |-> item.watched_at,
     progress_seconds |-> item.progress_seconds,
     duration_seconds |-> item.duration_seconds,
     title |-> "details.title", failed_to_load |-> FALSE, episode_name |-> "none"]

\* { ...result, episode_name, still_path, episode_overview } (lines 112-117)
WithEpisode(result) == [result EXCEPT !.episode_name = "episodeDetails.name"]

\* the placeholder of the catch block (lines 127-144)
Placeholder_Unflagged(item) ==
    [id |-> item.media_id, type |-> item.media_type, media_type |-> item.media_type,
     media_id |-> item.media_id,
     season_number |-> item.season_number, episode_number |-> item.episode_number,
     watched_at |-> item.watched_at,
     progress_seconds |-> item.progress_seconds,
     duration_seconds |-> item.duration_seconds,
     title |-> IF item.media_type = "tv" THEN "Unknown TV Show" ELSE "Unknown Movie",
     failed_to_load |-> FALSE, episode_name |-> "none"]
Placeholder(item) ==
    [id |-> item.media_id, type |-> item.media_type, media_type |-> item.media_type,
     media_id |-> item.media_id,
     season_number |-> item.season_number, episode_number |-> item.episode_number,
     watched_at |-> item.watched_at,
     progress_seconds |-> item.progress_seconds,
     duration_seconds |-> item.duration_seconds,
     title |-> IF item.media_type = "tv" THEN "Unknown TV Show" ELSE "Unknown Movie",
     failed_to_load |-> TRUE, episode_name |-> "none"]

\* item.media_type === 'tv' && item.season_number && item.episode_number
IsEpisode_AnyTv(item) == item.media_type = "tv"
IsEpisode(item) ==
    /\ item.media_type = "tv"
    /\ Truthy(item.season_number)
    /\ Truthy(item.episode_number)

\* a promise of the map callback: pending at one of its awaits, or fulfilled
\* with a value; `result` is the callback's local
Pending(pc, result) == [pc |-> pc, status |-> "pending", result |-> result, value |-> <<>>]
Fulfilled(value) == [pc |-> "done", status |-> "fulfilled", result |-> <<>>, value |-> <<value>>]

\* detailedHistory.filter(result => result.status === 'fulfilled' && result.value)
\*                .map(result => result.value)
SuccessfulResults_FailedDropped(settled) ==
    LET kept == SelectSeq(settled, LAMBDA r : r.status = "fulfilled" /\ r.value # <<>>
                                              /\ ~r.value[1].failed_to_load)
    IN [n \in DOMAIN kept |-> kept[n].value[1]]
SuccessfulResults(settled) ==
    LET kept == SelectSeq(settled, LAMBDA r : r.status = "fulfilled" /\ r.value # <<>>)
    IN [n \in DOMAIN kept |-> kept[n].value[1]]

\* the callback suspends at `await call`
Await(log, call) == Append(log, [call |-> call, outcome |-> "pending"])

\* the call the callback is suspended at answers ("returned") or throws
Resolved(log, outcome) == [log EXCEPT ![Len(log)].outcome = outcome]

HistoryIdle ==
    /\ user = FALSE
    /\ histPc = "idle"
    /\ historyData = <<>>
    /\ detailedHistory = <<>>
    /\ awaited = <<>>
    /\ history = <<>>
    /\ loading = TRUE
    /\ error = "null"

\* fetchHistory() is called; `u` tells whether useAuth() has a user
CallFetchHistory(u) ==
    /\ histPc = "idle"
    /\ user' = u
    /\ IF ~u
       THEN /\ loading' = FALSE
            /\ histPc' = "done"
            /\ error' = error
       ELSE /\ loading' = TRUE
            /\ error' = "null"
            /\ histPc' = "testSupabaseConnection"
    /\ UNCHANGED <<historyData, detailedHistory, awaited, history, vars, fetchVars>>

\* the catch and finally blocks of fetchHistory (lines 155-161)
HistoryCatch_ErrorUnset ==
    /\ error' = "null"
    /\ history' = <<>>
    /\ loading' = FALSE
    /\ histPc' = "done"
HistoryCatch ==
    /\ error' = "Failed to load watch history. Please try again."
    /\ history' = <<>>
    /\ loading' = FALSE
    /\ histPc' = "done"

\* testSupabaseConnection() answers true
ConnectionOk ==
    /\ histPc = "testSupabaseConnection"
    /\ histPc' = "getWatchHistoryWithProgress"
    /\ UNCHANGED <<user, historyData, detailedHistory, awaited, history, loading, error,
                   vars, fetchVars>>

\* testSupabaseConnection() answers false (or throws)
ConnectionFailed ==
    /\ histPc = "testSupabaseConnection"
    /\ HistoryCatch
    /\ UNCHANGED <<user, historyData, detailedHistory, awaited, vars, fetchVars>>

\* getWatchHistoryWithProgress() throws
HistoryFetchFailed ==
    /\ histPc = "getWatchHistoryWithProgress"
    /\ HistoryCatch
    /\ UNCHANGED <<user, historyData, detailedHistory, awaited, vars, fetchVars>>

\* getWatchHistoryWithProgress() answers null or an empty list
HistoryEmpty ==
    /\ histPc = "getWatchHistoryWithProgress"
    /\ history' = <<>>
    /\ loading' = FALSE
    /\ histPc' = "done"
    /\ UNCHANGED <<user, historyData, detailedHistory, awaited, error, vars, fetchVars>>

\* getWatchHistoryWithProgress() answers `data`: every map callback runs up
\* to its first await, the fetchWithRetry of the details
HistoryReceived(data) ==
    /\ histPc = "getWatchHistoryWithProgress"
    /\ historyData' = data
    /\ detailedHistory' = [n \in DOMAIN data |-> Pending("details", <<>>)]
    /\ awaited' = [n \in DOMAIN data |-> Await(<<>>, "details")]
    /\ histPc' = "allSettled"
    /\ UNCHANGED <<user, history, loading, error, vars, fetchVars>>

AtItem(n, pc) ==
    /\ histPc = "allSettled"
    /\ n \in DOMAIN detailedHistory
    /\ detailedHistory[n].pc = pc

Settle(n, promise) ==
    /\ detailedHistory' = [detailedHistory EXCEPT ![n] = promise]
    /\ UNCHANGED <<user, histPc, historyData, history, loading, error, vars, fetchVars>>

\* fetchWithRetry of the details returns a response (it returns only
\* responses with ok = true): response.json() is awaited
DetailsFetched(n) ==
    /\ AtItem(n, "details")
    /\ Settle(n, Pending("details.json", <<>>))
    /\ awaited' = [awaited EXCEPT ![n] = Await(Resolved(@, "returned"), "details.json")]

\* fetchWithRetry of the details throws after its retries: placeholder
DetailsFetchFailed(n) ==
    /\ AtItem(n, "details")
    /\ Settle(n, Fulfilled(Placeholder(historyData[n])))
    /\ awaited' = [awaited EXCEPT ![n] = Resolved(@, "thrown")]

\* response.json() answers: the result is built; for an episode the
\* fetchWithRetry of the episode details is awaited, otherwise return result
DetailsParsed(n) ==
    /\ AtItem(n, "details.json")
    /\ IF IsEpisode(historyData[n])
       THEN Settle(n, Pending("episode", <<DetailsResult(historyData[n])>>))
       ELSE Settle(n, Fulfilled(DetailsResult(historyData[n])))
    /\ awaited' = [awaited EXCEPT ![n] = IF IsEpisode(historyData[n])
                                          THEN Await(Resolved(@, "returned"), "episode")
                                          ELSE Resolved(@, "returned")]

\* response.json() throws (or the details cannot be read): placeholder
DetailsParseFailed(n) ==
    /\ AtItem(n, "details.json")
    /\ Settle(n, Fulfilled(Placeholder(historyData[n])))
    /\ awaited' = [awaited EXCEPT ![n] = Resolved(@, "thrown")]

\* fetchWithRetry of the episode details returns a response
EpisodeFetched(n) ==
    /\ AtItem(n, "episode")
    /\ Settle(n, Pending("episode.json", detailedHistory[n].result))
    /\ awaited' = [awaited EXCEPT ![n] = Await(Resolved(@, "returned"), "episode.json")]

\* fetchWithRetry of the episode details throws: inner catch, return result
EpisodeFetchFailed(n) ==
    /\ AtItem(n, "episode")
    /\ Settle(n, Fulfilled(detailedHistory[n].result[1]))
    /\ awaited' = [awaited EXCEPT ![n] = Resolved(@, "thrown")]

\* episodeResponse.json() answers: return the result with the episode fields
EpisodeParsed(n) ==
    /\ AtItem(n, "episode.json")
    /\ Settle(n, Fulfilled(WithEpisode(detailedHistory[n].result[1])))
    /\ awaited' = [awaited EXCEPT ![n] = Resolved(@, "returned")]

\* episodeResponse.json() throws: inner catch, return result
EpisodeParseFailed(n) ==
    /\ AtItem(n, "episode.json")
    /\ Settle(n, Fulfilled(detailedHistory[n].result[1]))
    /\ awaited' = [awaited EXCEPT ![n] = Resolved(@, "thrown")]

\* Promise.allSettled resolves: setHistory(successfulResults), finally
HistorySettled ==
    /\ histPc = "allSettled"
    /\ \A n \in DOMAIN detailedHistory : detailedHistory[n].status # "pending"
    /\ history' = SuccessfulResults(detailedHistory)
    /\ loading' = FALSE
    /\ histPc' = "done"
    /\ UNCHANGED <<user, historyData, detailedHistory, awaited, error, vars, fetchVars>>

HistoryNext ==
    \/ \E u \in BOOLEAN : CallFetchHistory(u)
    \/ ConnectionOk
    \/ ConnectionFailed
    \/ HistoryFetchFailed
    \/ HistoryEmpty
    \/ \E data \in RawLists : HistoryReceived(data)
    \/ \E n \in DOMAIN detailedHistory : DetailsFetched(n)
    \/ \E n \in DOMAIN detailedHistory : DetailsFetchFailed(n)
    \/ \E n \in DOMAIN detailedHistory : DetailsParsed(n)
    \/ \E n \in DOMAIN detailedHistory : DetailsParseFailed(n)
    \/ \E n \in DOMAIN detailedHistory : EpisodeFetched(n)
    \/ \E n \in DOMAIN detailedHistory : EpisodeFetchFailed(n)
    \/ \E n \in DOMAIN detailedHistory : EpisodeParsed(n)
    \/ \E n \in DOMAIN detailedHistory : EpisodeParseFailed(n)
    \/ HistorySettled

\* ---- specifications ---------------------------------------------------------

Init == FavoritesInit /\ FetchIdle /\ HistoryIdle

\* the favorites store
Spec == Init /\ [][Next]_allVars

FetchInit ==
    /\ favorites = <<>> /\ favoritedMedia = {} /\ remote = {}
    /\ toasts = <<>> /\ calls = <<>> /\ favoritedMedia0 = {}
    /\ FetchIdle
    /\ HistoryIdle

\* one call of fetchWithRetry
SpecFetch == FetchInit /\ [][FetchNext]_allVars

\* one call of fetchHistory
SpecHistory == FetchInit /\ [][HistoryNext]_allVars

\* ---- properties -------------------------------------------------------------

\* call c took a step: one segment of its function body ran
Stepped(c) == calls'[c] # calls[c]

\* the list holds an entry stored under `key`
Listed(key, favs) == \E i \in DOMAIN favs : KeyOf(favs[i]) = key

AllKeys == Ids \X Types

\* C1: an authenticated add of a show whose key is not in the index puts the
\* entry at the head of the list and the key in the index and emits the
\* success notification in the same step, with the insert still awaited and
\* the remote table untouched; the step in which the insert resolves without
\* error changes neither the list nor the index.
C1_OptimisticAddThenSuccess ==
    [][\A c \in DOMAIN calls :
        /\ ( /\ At(c, "add", "getUser")
             /\ Stepped(c)
             /\ calls'[c].outcome # "unauth"
             /\ ~isShowFavorited(calls[c].id) )
           => /\ calls'[c].pc = "insert"
              /\ favorites' = <<[id |-> calls[c].id, type |-> "tv"]>> \o favorites
              /\ favoritedMedia' = favoritedMedia \cup {<<calls[c].id, "tv">>}
              /\ toasts' = Append(toasts, Toast("success", "added", calls[c].id))
              /\ remote' = remote
        /\ ( /\ At(c, "add", "insert")
             /\ Stepped(c)
             /\ calls'[c].outcome = "ok" )
           => /\ favorites' = favorites
              /\ favoritedMedia' = favoritedMedia
      ]_vars

\* an add whose insert succeeded, its entry at the head of a longer list
C1_Witness ==
    \E c \in DOMAIN calls :
        /\ calls[c].op = "add" /\ calls[c].outcome = "ok"
        /\ Len(favorites) >= 2
        /\ Head(favorites) = ShowEntry(calls[c].id)
        /\ isShowFavorited(calls[c].id)
        /\ \E t \in DOMAIN toasts : toasts[t] = Toast("success", "added", calls[c].id)

\* C2: when the insert of an add fails, the state the add settles in has the
\* show's key out of the index and no entry for the show in the list.
C2_FailedAddRolledBack ==
    [][\A c \in DOMAIN calls :
        ( /\ At(c, "add", "insert")
          /\ Stepped(c)
          /\ calls'[c].outcome = "error" )
        => /\ calls'[c].pc = "done"
           /\ FavoriteKey(calls[c].id) \notin favoritedMedia'
           /\ ~Listed(FavoriteKey(calls[c].id), favorites')
      ]_vars

\* an add settled with a failed insert, another show still listed
C2_Witness ==
    \E c \in DOMAIN calls :
        /\ calls[c].op = "add" /\ calls[c].outcome = "error"
        /\ ~isShowFavorited(calls[c].id)
        /\ Len(favorites) >= 1

\* C3: remove takes its snapshot of list and index in the step that does the
\* optimistic update; when the delete fails, list and index become exactly
\* that snapshot and the failure notification is emitted.
C3_FailedRemoveRestoresSnapshot ==
    [][\A c \in DOMAIN calls :
        /\ ( /\ At(c, "remove", "getUser")
             /\ Stepped(c)
             /\ calls'[c].outcome # "unauth" )
           => /\ calls'[c].pc = "delete"
              /\ calls'[c].originalFavorites = favorites
              /\ calls'[c].originalFavoritedMedia = favoritedMedia
        /\ ( /\ At(c, "remove", "delete")
             /\ Stepped(c)
             /\ calls'[c].outcome = "error" )
           => /\ favorites' = calls[c].originalFavorites
              /\ favoritedMedia' = calls[c].originalFavoritedMedia
              /\ toasts' = Append(toasts, Toast("error", "removeFailed", calls[c].id))
      ]_vars

\* a remove whose delete failed, the removed entry and an unrelated one back
C3_Witness ==
    \E c \in DOMAIN calls :
        /\ calls[c].op = "remove" /\ calls[c].outcome = "error"
        /\ Len(favorites) >= 2
        /\ Listed(FavoriteKey(calls[c].id), favorites)
        /\ isShowFavorited(calls[c].id)

\* C4: whenever no add/remove is in flight, a key is in the membership index
\* if and only if the list holds an entry stored under that key.
C4_IndexAgreesWithList ==
    AllSettled =>
        \A key \in AllKeys : key \in favoritedMedia <=> Listed(key, favorites)

\* C5: when every call had a user, every remote call succeeded and no two
\* calls name the same show, then once all have settled isShowFavorited of
\* every show is what the calls, applied in call order to a plain set that
\* starts as the initial index, leave in that set.
RECURSIVE PlainSet(_)
PlainSet(n) ==
    IF n = 0 THEN favoritedMedia0
    ELSE IF calls[n].op = "add"
         THEN PlainSet(n - 1) \cup {FavoriteKey(calls[n].id)}
         ELSE PlainSet(n - 1) \ {FavoriteKey(calls[n].id)}

AllSucceeded == \A c \in DOMAIN calls : calls[c].outcome \in {"ok", "noop"}

DistinctShows == \A c, d \in DOMAIN calls : c # d => calls[c].id # calls[d].id

C5_NetEffectOfSequence ==
    (AllSettled /\ AllSucceeded /\ DistinctShows) =>
        \A showId \in Ids :
            isShowFavorited(showId) <=> FavoriteKey(showId) \in PlainSet(Len(calls))

\* an add and a remove of two shows, both succeeded, both changed membership
C5_Witness ==
    /\ AllSettled /\ AllSucceeded /\ DistinctShows
    /\ \E c, d \in DOMAIN calls :
        /\ calls[c].op = "add" /\ calls[c].outcome = "ok"
        /\ FavoriteKey(calls[c].id) \notin favoritedMedia0
        /\ calls[d].op = "remove" /\ calls[d].outcome = "ok"
        /\ FavoriteKey(calls[d].id) \in favoritedMedia0

\* C6: when every call was made after all earlier calls had settled, then in
\* every state in which all calls have settled the membership index holds
\* exactly the keys the remote table holds.
C6_LocalMatchesRemote ==
    (AllSettled /\ \A c \in DOMAIN calls : calls[c].afterSettled) =>
        favoritedMedia = remote

\* two calls one after the other, one remote call failed, one succeeded
C6_Witness ==
    /\ AllSettled
    /\ \A c \in DOMAIN calls : calls[c].afterSettled
    /\ \E c, d \in DOMAIN calls :
        calls[c].outcome = "error" /\ calls[d].outcome = "ok"

\* C7: an authenticated add that finds its key in the index returns without
\* changing list, index, notifications or remote table and without awaiting
\* an insert.
C7_AddOfPresentKeyIsNoop ==
    [][\A c \in DOMAIN calls :
        ( /\ At(c, "add", "getUser")
          /\ Stepped(c)
          /\ calls'[c].outcome # "unauth"
          /\ isShowFavorited(calls[c].id) )
        => /\ calls'[c].pc = "done"
           /\ UNCHANGED <<favorites, favoritedMedia, toasts, remote>>
      ]_vars

\* an add that returned at the guard while another add of the same show is
\* still awaiting its insert
C7_Witness ==
    \E c, d \in DOMAIN calls :
        /\ calls[c].op = "add" /\ calls[c].pc = "insert"
        /\ calls[d].op = "add" /\ calls[d].outcome = "noop"
        /\ calls[d].id = calls[c].id

\* C8: for every show at most one call is awaiting its remote insert or delete.
InFlight(showId) ==
    {c \in DOMAIN calls : calls[c].id = showId /\ calls[c].pc \in {"insert", "delete"}}

C8_OneRemoteCallPerKey ==
    \A showId \in Ids : Cardinality(InFlight(showId)) <= 1

\* C9: an add that gets no user leaves list, index and remote table as they
\* are, returns without awaiting an insert, and emits the error notification.
C9_AddWithoutUser ==
    [][\A c \in DOMAIN calls :
        ( /\ At(c, "add", "getUser")
          /\ Stepped(c)
          /\ calls'[c].outcome = "unauth" )
        => /\ calls'[c].pc = "done"
           /\ UNCHANGED <<favorites, favoritedMedia, remote>>
           /\ toasts' = Append(toasts, Toast("error", "login", 0))
      ]_vars

\* an add that returned for lack of a user, its error notification emitted
C9_Witness ==
    \E c \in DOMAIN calls :
        /\ calls[c].op = "add" /\ calls[c].outcome = "unauth"
        /\ \E t \in DOMAIN toasts : toasts[t] = Toast("error", "login", 0)

\* C10: a remove that gets no user returns without changing list, index,
\* notifications or remote table and without awaiting a delete.
C10_RemoveWithoutUser ==
    [][\A c \in DOMAIN calls :
        ( /\ At(c, "remove", "getUser")
          /\ Stepped(c)
          /\ calls'[c].outcome = "unauth" )
        => /\ calls'[c].pc = "done"
           /\ UNCHANGED <<favorites, favoritedMedia, toasts, remote>>
      ]_vars

\* a remove of a listed show that returned for lack of a user
C10_Witness ==
    \E c \in DOMAIN calls :
        /\ calls[c].op = "remove" /\ calls[c].outcome = "unauth"
        /\ isShowFavorited(calls[c].id)
        /\ toasts = <<>>

\* C11: an authenticated remove of a show whose key is in the index takes the
\* key out of the index and the entry out of the list in the step that sends
\* the delete (the delete still awaited, the remote table untouched); the step
\* in which the delete resolves without error changes neither list nor index
\* and emits no notification.
C11_OptimisticRemoveThenSuccess ==
    [][\A c \in DOMAIN calls :
        /\ ( /\ At(c, "remove", "getUser")
             /\ Stepped(c)
             /\ calls'[c].outcome # "unauth"
             /\ isShowFavorited(calls[c].id) )
           => /\ calls'[c].pc = "delete"
              /\ FavoriteKey(calls[c].id) \notin favoritedMedia'
              /\ ~Listed(FavoriteKey(calls[c].id), favorites')
              /\ remote' = remote
        /\ ( /\ At(c, "remove", "delete")
             /\ Stepped(c)
             /\ calls'[c].outcome = "ok" )
           => /\ favorites' = favorites
              /\ favoritedMedia' = favoritedMedia
              /\ toasts' = toasts
      ]_vars

\* a remove of a listed show whose delete succeeded: the show is gone, the
\* only notification is the removal notice
C11_Witness ==
    \E c \in DOMAIN calls :
        /\ calls[c].op = "remove" /\ calls[c].outcome = "ok"
        /\ FavoriteKey(calls[c].id) \in favoritedMedia0
        /\ ~isShowFavorited(calls[c].id)
        /\ ~Listed(FavoriteKey(calls[c].id), favorites)
        /\ toasts = <<Toast("error", "removed", calls[c].id)>>

\* C12: the step in which the insert of an add fails emits an error
\* notification.
C12_FailedAddNotifies ==
    [][\A c \in DOMAIN calls :
        ( /\ At(c, "add", "insert")
          /\ Stepped(c)
          /\ calls'[c].outcome = "error" )
        => /\ Len(toasts') = Len(toasts) + 1
           /\ toasts'[Len(toasts')].kind = "error"
      ]_vars

\* C13: a remove whose delete fails takes out of the index and the list every
\* key that entered the index after the remove took its snapshot.  The
\* witness is the interleaving of the claim: the add of another show
\* completes with a successful insert while the remove is in flight, and
\* after the rollback that show is in the remote table but neither in the
\* index nor in the list.
C13_StaleSnapshotErasesLaterAdd ==
    [][\A c \in DOMAIN calls :
        ( /\ At(c, "remove", "delete")
          /\ Stepped(c)
          /\ calls'[c].outcome = "error" )
        => \A key \in favoritedMedia \ calls[c].originalFavoritedMedia :
              /\ key \notin favoritedMedia'
              /\ ~Listed(key, favorites')
      ]_vars

C13_Witness ==
    /\ AllSettled
    /\ \E c, d \in DOMAIN calls :
        /\ calls[c].op = "remove" /\ calls[c].outcome = "error"
        /\ calls[d].op = "add" /\ calls[d].outcome = "ok"
        /\ calls[d].id # calls[c].id
        /\ FavoriteKey(calls[d].id) \notin favoritedMedia0
        /\ FavoriteKey(calls[d].id) \in remote
        /\ ~isShowFavorited(calls[d].id)
        /\ ~Listed(FavoriteKey(calls[d].id), favorites)

\* C14: the optimistic step of an add, the rollback of a failed add and the
\* optimistic step of a remove of show K leave every list entry and every
\* index key that belongs to another key as it was.
OtherEntries(key, favs) == SelectSeq(favs, LAMBDA f : KeyOf(f) # key)

C14_OnlyOwnSlotChanges ==
    [][\A c \in DOMAIN calls :
        ( /\ Stepped(c)
          /\ \/ At(c, "add", "getUser") /\ calls'[c].pc = "insert"
             \/ At(c, "add", "insert") /\ calls'[c].outcome = "error"
             \/ At(c, "remove", "getUser") /\ calls'[c].pc = "delete" )
        => /\ OtherEntries(FavoriteKey(calls[c].id), favorites')
                = OtherEntries(FavoriteKey(calls[c].id), favorites)
           /\ favoritedMedia' \ {FavoriteKey(calls[c].id)}
                = favoritedMedia \ {FavoriteKey(calls[c].id)}
      ]_vars

\* ---- properties of fetchWithRetry -------------------------------------------

Failed(req) == req.race \in {"notOk", "requestError", "timeout"}

\* the error an attempt ends with, by the way its race ended
ErrorOf(req) ==
    CASE req.race = "notOk" -> "http"
      [] req.race = "requestError" -> "request"
      [] req.race = "timeout" -> "timeout"
      [] OTHER -> "none"

HasBackoff(k) == \E t \in timers : t.kind = "backoff" /\ t.attempt = k

\* C15: for maxRetries >= 1, when attempt k succeeds (after k-1 failed
\* attempts) the call has returned the response of attempt k and exactly k
\* requests have been made, now and ever after.
C15_ReturnsFirstSuccess ==
    maxRetries >= 1 =>
        \A k \in DOMAIN requests :
            requests[k].race = "ok" =>
                /\ k <= maxRetries
                /\ \A j \in 1..(k - 1) : Failed(requests[j])
                /\ fetchPc = "returned"
                /\ fetchResult.kind = "response"
                /\ fetchResult.attempt = k
                /\ Len(requests) = k

\* two failed attempts, the third succeeds and is returned
C15_Witness ==
    /\ maxRetries >= 3
    /\ Len(requests) = 3
    /\ Failed(requests[1]) /\ Failed(requests[2])
    /\ requests[3].race = "ok"
    /\ fetchResult.kind = "response" /\ fetchResult.attempt = 3

\* C16: for maxRetries >= 1 never more than maxRetries requests are made,
\* and once maxRetries attempts have failed the call has thrown the error of
\* the last attempt (and it throws in no other case).
C16_ThrowsAfterMaxRetries ==
    maxRetries >= 1 =>
        /\ Len(requests) <= maxRetries
        /\ ( /\ Len(requests) = maxRetries
             /\ \A k \in DOMAIN requests : Failed(requests[k]) )
           => /\ fetchPc = "thrown"
              /\ fetchResult.kind = "error"
              /\ fetchResult.attempt = maxRetries
              /\ fetchResult.error = ErrorOf(requests[maxRetries])
        /\ fetchPc = "thrown"
           => /\ Len(requests) = maxRetries
              /\ \A k \in DOMAIN requests : Failed(requests[k])

\* three attempts of three failed, the last one's error is thrown
C16_Witness ==
    /\ maxRetries = 3
    /\ Len(requests) = 3
    /\ fetchPc = "thrown"
    /\ fetchResult.attempt = 3
    /\ requests[3].race = "requestError"
    /\ requests[1].race = "timeout"

\* C17: a returned response is always one with ok = true; an attempt whose
\* response has ok = false goes through the catch block like a request
\* error: thrown on the last attempt, otherwise the backoff wait.
C17_NonOkResponseIsFailure ==
    [][/\ fetchResult'.kind = "response"
          => requests'[fetchResult'.attempt].race = "ok"
       /\ \A k \in DOMAIN requests :
            (requests[k].race = "pending" /\ requests'[k].race = "notOk")
            => IF loopI = maxRetries - 1
               THEN /\ fetchPc' = "thrown"
                    /\ fetchResult'.kind = "error"
                    /\ fetchResult'.attempt = k
               ELSE /\ fetchPc' = "waiting"
                    /\ fetchResult' = fetchResult
                    /\ \E t \in timers' \ timers : t.kind = "backoff" /\ t.attempt = k
      ]_allVars

\* a non-ok response on the first attempt was retried, a non-ok response on
\* the last attempt was thrown
C17_Witness ==
    /\ maxRetries = 2
    /\ Len(requests) = 2
    /\ requests[1].race = "notOk" /\ requests[2].race = "notOk"
    /\ fetchPc = "thrown" /\ fetchResult.error = "http"

\* C18: the backoff timer set after failed attempt n (n < maxRetries) is due
\* delay * n after the failure; attempt n + 1 starts exactly when it is due;
\* the last failed attempt sets no timer and the error is thrown at once.
C18_LinearBackoff ==
    /\ \A t \in timers :
        t.kind = "backoff" =>
            /\ t.attempt < maxRetries
            /\ t.attempt = Len(requests)
            /\ Failed(requests[t.attempt])
            /\ t.at = requests[t.attempt].endedAt + delay * t.attempt
    /\ \A k \in DOMAIN requests :
        k > 1 => requests[k].startedAt = requests[k - 1].endedAt + delay * (k - 1)
    /\ fetchPc = "thrown" =>
        /\ ~HasBackoff(Len(requests))
        /\ fetchResult.at = requests[Len(requests)].endedAt

\* the third attempt started two delays after the second failed, and the
\* error of the third was thrown without a wait
C18_Witness ==
    /\ Len(requests) = 3
    /\ delay = 2
    /\ requests[2].startedAt = requests[1].endedAt + 2
    /\ requests[3].startedAt = requests[2].endedAt + 4
    /\ fetchPc = "thrown"

\* C19: an attempt whose request is unsettled when its timeout fires
\* (TimeoutMs after it started) ends as a failed attempt: thrown on the last
\* attempt, otherwise the backoff wait.  From then on the attempt stays
\* failed, and the request settling later changes nothing of the call; a
\* returned response is always that of an attempt whose request won its race.
C19_TimeoutFailsAttempt ==
    [][\A k \in DOMAIN requests :
        /\ (requests[k].race = "pending" /\ requests'[k].race = "timeout")
           => /\ requests[k].net = "pending"
              /\ now = requests[k].startedAt + TimeoutMs
              /\ IF loopI = maxRetries - 1
                 THEN /\ fetchPc' = "thrown"
                      /\ fetchResult'.kind = "error"
                      /\ fetchResult'.attempt = k
                      /\ fetchResult'.error = "timeout"
                 ELSE /\ fetchPc' = "waiting"
                      /\ fetchResult' = fetchResult
                      /\ \E t \in timers' \ timers :
                            t.kind = "backoff" /\ t.attempt = k
        /\ requests[k].race = "timeout"
           => /\ requests'[k].race = "timeout"
              /\ requests'[k].net # requests[k].net
                 => UNCHANGED <<fetchPc, fetchResult, loopI, timers, maxRetries, delay>>
              /\ fetchResult'.kind = "response" => fetchResult'.attempt # k
      ]_allVars

\* the first attempt timed out and its response arrived later; the call
\* returned the response of the second attempt
C19_Witness ==
    /\ Len(requests) = 2
    /\ requests[1].race = "timeout" /\ requests[1].net = "lateOk"
    /\ fetchResult.kind = "response" /\ fetchResult.attempt = 2

\* ---- properties of fetchHistory ---------------------------------------------

\* the output record r stands for the raw record item
Corresponds(r, item) ==
    /\ r.media_id = item.media_id
    /\ r.type = item.media_type
    /\ r.season_number = item.season_number
    /\ r.episode_number = item.episode_number
    /\ r.watched_at = item.watched_at

\* C20: once the enrichment of the N raw records received has completed, the
\* history holds exactly N records and the n-th stands for the n-th raw
\* record, whichever of the fetches and parsings failed.
C20_OneOutputPerRecord ==
    (histPc = "done" /\ historyData # <<>>) =>
        /\ Len(history) = Len(historyData)
        /\ \A n \in DOMAIN historyData : Corresponds(history[n], historyData[n])

\* two records enriched: the first ended as a placeholder, the second with
\* its episode fields
C20_Witness ==
    /\ histPc = "done"
    /\ Len(historyData) = 2
    /\ Len(history) = 2
    /\ history[1].failed_to_load
    /\ history[2].episode_name # "none"

\* the callback of record n has awaited `call`
Attempted(n, call) ==
    \E k \in DOMAIN awaited[n] : awaited[n][k].call = call

\* `call`, awaited by the callback of record n, threw
Threw(n, call) ==
    \E k \in DOMAIN awaited[n] :
        awaited[n][k].call = call /\ awaited[n][k].outcome = "thrown"

\* the fetch of the details (after its retries) or the parsing of its
\* response failed
PrimaryFailed(n) == Threw(n, "details") \/ Threw(n, "details.json")

SyntheticTitles == {"Unknown TV Show", "Unknown Movie"}

\* the enrichment of the records received has completed
Enriched == histPc = "done" /\ historyData # <<>>

\* C21: once the enrichment has completed, the output of a record carries
\* the failed-to-load flag and a synthetic title exactly when the fetch of its
\* details or the parsing of the response failed; such an output keeps the
\* record's media id, type, season and episode numbers, watched-at, progress
\* and duration, and no episode fetch was attempted for the record.
C21_PlaceholderIffPrimaryFailed ==
    Enriched =>
        \A n \in DOMAIN historyData :
            /\ (history[n].failed_to_load /\ history[n].title \in SyntheticTitles)
                   <=> PrimaryFailed(n)
            /\ history[n].failed_to_load <=> (history[n].title \in SyntheticTitles)
            /\ PrimaryFailed(n) =>
                   /\ Corresponds(history[n], historyData[n])
                   /\ history[n].progress_seconds = historyData[n].progress_seconds
                   /\ history[n].duration_seconds = historyData[n].duration_seconds
                   /\ ~Attempted(n, "episode")

\* two episode records enriched: the response of the first could not be
\* parsed, the second is fully populated
C21_Witness ==
    /\ Enriched
    /\ Len(historyData) = 2
    /\ IsEpisode(historyData[1])
    /\ Threw(1, "details.json")
    /\ history[1].failed_to_load
    /\ ~PrimaryFailed(2)
    /\ history[2].episode_name # "none"

\* the record is of type tv and has both a season and an episode number
TvWithSeasonAndEpisode(item) ==
    /\ item.media_type = "tv"
    /\ item.season_number # 0
    /\ item.episode_number # 0

\* C22: the fetch of the episode details is attempted only for records of
\* type tv that have both a season and an episode number; and once the
\* enrichment has completed, a record whose details were fetched and parsed
\* but whose episode fetch failed has the output built from the details,
\* without episode fields and without the failed-to-load flag.
C22_EpisodeFailureDegrades ==
    /\ \A n \in DOMAIN awaited :
           Attempted(n, "episode") => TvWithSeasonAndEpisode(historyData[n])
    /\ Enriched =>
           \A n \in DOMAIN historyData :
               (~PrimaryFailed(n) /\ Threw(n, "episode")) =>
                   /\ ~history[n].failed_to_load
                   /\ history[n].title = "details.title"
                   /\ history[n].episode_name = "none"
                   /\ Corresponds(history[n], historyData[n])

\* enrichment completed with an episode record whose episode fetch failed,
\* beside a tv record without episode number
C22_Witness ==
    /\ Enriched
    /\ Len(historyData) = 2
    /\ Threw(1, "episode")
    /\ ~history[1].failed_to_load
    /\ historyData[2].media_type = "tv"
    /\ historyData[2].season_number # 0
    /\ historyData[2].episode_number = 0
    /\ ~PrimaryFailed(2)
    /\ ~Attempted(2, "episode")

\* C23: a failed connection check, or a failed fetch of the raw history,
\* aborts the listing in that step: no details fetch has been or will be
\* issued, the history is empty and the error is set; failures of the
\* enrichment of single records leave the error unset; and whenever a call
\* of fetchHistory has ended (no user, failed check, empty history, enriched)
\* loading is false.
C23_AbortOnFailedCheck ==
    /\ [][(ConnectionFailed \/ HistoryFetchFailed) =>
              /\ histPc' = "done"
              /\ awaited' = <<>>
              /\ history' = <<>>
              /\ error' # "null"]_allVars
    /\ []((histPc = "done" /\ awaited = <<>>) => historyData = <<>>)
    /\ []((histPc = "allSettled" \/ Enriched) => error = "null")
    /\ [](histPc = "done" => loading = FALSE)

\* the call has ended after a failed check
C23_Witness ==
    /\ user
    /\ histPc = "done"
    /\ error # "null"
    /\ history = <<>>
    /\ awaited = <<>>
    /\ ~loading

\* ---- fetchWithRetry without attempts ---------------------------------------

\* C24: a call of fetchWithRetry with maxRetries <= 0 sends no request, sets
\* no timer, and ends at once by returning undefined: neither a response nor
\* a thrown error.
C24_NoAttemptsReturnsUndefined ==
    (fetchPc # "idle" /\ maxRetries <= 0) =>
        /\ fetchPc = "returned"
        /\ requests = <<>>
        /\ timers = {}
        /\ fetchResult.kind = "undefined"

\* fetchWithRetry(url, 0) has returned
C24_Witness ==
    /\ fetchPc = "returned"
    /\ maxRetries = 0
    /\ requests = <<>>
    /\ fetchResult.kind = "undefined"

====
